---------------------------- MODULE Spec2Model ----------------------------
(***************************************************************************)
(* A model of the chat front end.  Two builds of the App component exist   *)
(* in the repository: the IT assistant (install lookup, ticket creation,   *)
(* incident status, static sales charts) and the Sales Insights assistant  *)
(* (one analytics endpoint).  The variable build says which one runs.      *)
(*                                                                         *)
(* Text is modelled by TLA+ strings; an optional value (null / undefined   *)
(* in the source) is the empty tuple, a present value v the tuple <<v>>.   *)
(* A backend JSON object is a record whose DOMAIN is the set of its keys.  *)
(***************************************************************************)
EXTENDS Naturals, Sequences, FiniteSets, TLC

VARIABLES
    build,      \* "it" | "sales": which App component is mounted
    messages,   \* useState(loadHistory): sequence of [role, content]
    pending,    \* useState(null): <<>> or <<[user_query, options]>>   (it)
    thinking,   \* useState(false)
    showChart,  \* useState(null): <<>> or <<"monthly"|"products"|"quarterly">>
    lastPayload,\* useState(null): <<>> or <<response>>                 (sales)
    errorMsg,   \* useState(""): text                                   (sales)
    choice,     \* window.__choice: <<>> (undefined) or <<option>>      (it)
    storage,    \* localStorage["chat_history_v1"]: <<>> or <<text>>
    calls,      \* backend calls awaiting their response, in issue order
    last        \* the handler or continuation that ran last, with its inputs

vars == <<build, messages, pending, thinking, showChart, lastPayload,
          errorMsg, choice, storage, calls, last>>

-----------------------------------------------------------------------------
(* Bounds of the model. *)

\* Longest transcript (turns appended plus turns still owed by calls in flight).
MaxMessages == 6
\* Most backend calls awaiting their response at once.
MaxCalls == 2
\* Most words of an utterance drawn for the classification runs.
MaxWords == 3
\* Most values of a chart drawn for the rendering runs.
MaxValues == 2
\* Longest transcript of the runs in which every call ends.
MaxLiveTurns == 6

\* Turns and calls in flight of a session over reloads.
MaxReloadTurns == 5
\* Turns and calls in flight of a session of install requests and confirmations.
MaxConfirmTurns == 7

-----------------------------------------------------------------------------
(* Optional values. *)

None == <<>>
Some(v) == <<v>>
IsSome(o) == o # <<>>
Val(o) == o[1]

-----------------------------------------------------------------------------
(* Text: the String methods and regular expressions the source uses. *)

Ch(s, i) == SubSeq(s, i, i)

\* toLowerCase and toUpperCase of one ASCII letter
LowerOf ==
    "A" :> "a" @@ "B" :> "b" @@ "C" :> "c" @@ "D" :> "d" @@ "E" :> "e" @@ "F" :> "f" @@
    "G" :> "g" @@ "H" :> "h" @@ "I" :> "i" @@ "J" :> "j" @@ "K" :> "k" @@ "L" :> "l" @@
    "M" :> "m" @@ "N" :> "n" @@ "O" :> "o" @@ "P" :> "p" @@ "Q" :> "q" @@ "R" :> "r" @@
    "S" :> "s" @@ "T" :> "t" @@ "U" :> "u" @@ "V" :> "v" @@ "W" :> "w" @@ "X" :> "x" @@
    "Y" :> "y" @@ "Z" :> "z"

UpperOf ==
    "a" :> "A" @@ "b" :> "B" @@ "c" :> "C" @@ "d" :> "D" @@ "e" :> "E" @@ "f" :> "F" @@
    "g" :> "G" @@ "h" :> "H" @@ "i" :> "I" @@ "j" :> "J" @@ "k" :> "K" @@ "l" :> "L" @@
    "m" :> "M" @@ "n" :> "N" @@ "o" :> "O" @@ "p" :> "P" @@ "q" :> "Q" @@ "r" :> "R" @@
    "s" :> "S" @@ "t" :> "T" @@ "u" :> "U" @@ "v" :> "V" @@ "w" :> "W" @@ "x" :> "X" @@
    "y" :> "Y" @@ "z" :> "Z"

Digit == { "0", "1", "2", "3", "4", "5", "6", "7", "8", "9" }

IsDigit(c) == c \in Digit

\* \w of a JavaScript regular expression
IsWordChar(c) == c \in DOMAIN LowerOf \/ c \in DOMAIN UpperOf \/ IsDigit(c) \/ c = "_"

IsSpace(c) == c \in {" ", "\t", "\n"}

LowerCh(c) == IF c \in DOMAIN LowerOf THEN LowerOf[c] ELSE c

UpperCh(c) == IF c \in DOMAIN UpperOf THEN UpperOf[c] ELSE c

RECURSIVE toLowerCase(_)
toLowerCase(s) ==
    IF s = "" THEN "" ELSE LowerCh(Ch(s, 1)) \o toLowerCase(SubSeq(s, 2, Len(s)))

RECURSIVE toUpperCase(_)
toUpperCase(s) ==
    IF s = "" THEN "" ELSE UpperCh(Ch(s, 1)) \o toUpperCase(SubSeq(s, 2, Len(s)))

RECURSIVE trimStart(_)
trimStart(s) ==
    IF s # "" /\ IsSpace(Ch(s, 1)) THEN trimStart(SubSeq(s, 2, Len(s))) ELSE s

RECURSIVE trimEnd(_)
trimEnd(s) ==
    IF s # "" /\ IsSpace(Ch(s, Len(s))) THEN trimEnd(SubSeq(s, 1, Len(s) - 1)) ELSE s

trim(s) == trimEnd(trimStart(s))

\* String.prototype.includes
includes(s, sub) ==
    \E i \in 1..(Len(s) + 1) :
        /\ i + Len(sub) - 1 <= Len(s)
        /\ SubSeq(s, i, i + Len(sub) - 1) = sub

\* \b between positions i-1 and i, and between j and j+1, of s
BoundaryBefore(s, i) == IsWordChar(Ch(s, i)) # (i > 1 /\ IsWordChar(Ch(s, i - 1)))
BoundaryAfter(s, j) == IsWordChar(Ch(s, j)) # (j < Len(s) /\ IsWordChar(Ch(s, j + 1)))

\* s has the literal w (lower case) at i, compared case-insensitively, as \bw\b
WordAt(s, i, w) ==
    /\ i + Len(w) - 1 <= Len(s)
    /\ toLowerCase(SubSeq(s, i, i + Len(w) - 1)) = w
    /\ BoundaryBefore(s, i)
    /\ BoundaryAfter(s, i + Len(w) - 1)

\* The last index of the run of digits of s that starts at k (k - 1: no digit at k).
RECURSIVE DigitRunEnd(_, _)
DigitRunEnd(s, k) ==
    IF k <= Len(s) /\ IsDigit(Ch(s, k)) THEN DigitRunEnd(s, k + 1) ELSE k - 1

\* /\bINC\d+\b/i matches s from i: \d+ is greedy and no \b lies inside digits
IncAt(s, i) ==
    /\ i + 3 <= Len(s)
    /\ toLowerCase(SubSeq(s, i, i + 2)) = "inc"
    /\ BoundaryBefore(s, i)
    /\ DigitRunEnd(s, i + 3) >= i + 3
    /\ BoundaryAfter(s, DigitRunEnd(s, i + 3))

Least(S) == CHOOSE i \in S : \A j \in S : i <= j

\* query.match(/\bINC\d+\b/i): <<>> (null) or <<the first match>>
matchInc(query) ==
    LET at == {i \in 1..Len(query) : IncAt(query, i)}
    IN  IF at = {} THEN None
        ELSE Some(SubSeq(query, Least(at), DigitRunEnd(query, Least(at) + 3)))

\* The test without the i flag.
testInstall_caseSensitive(query) ==
    \E i \in 1..Len(query) : \E w \in {"install", "setup", "set up"} :
        /\ i + Len(w) - 1 <= Len(query)
        /\ SubSeq(query, i, i + Len(w) - 1) = w
        /\ BoundaryBefore(query, i)
        /\ BoundaryAfter(query, i + Len(w) - 1)

\* /\b(install|setup|set up)\b/i.test(query)
testInstall(query) ==
    \E i \in 1..Len(query) : \E w \in {"install", "setup", "set up"} : WordAt(query, i, w)

\* /\bq[1-4]\b/.test(lower)
testQuarter(lower) ==
    \E i \in 1..Len(lower) : \E w \in {"q1", "q2", "q3", "q4"} :
        /\ i + 1 <= Len(lower)
        /\ SubSeq(lower, i, i + 1) = w
        /\ BoundaryBefore(lower, i)
        /\ BoundaryAfter(lower, i + 1)

\* checkForChartRequest of the IT assistant: <<>> (null) or <<chart type>>
checkForChartRequest(query) ==
    LET lowerQuery == toLowerCase(query)
    IN  IF includes(lowerQuery, "sales") \/ includes(lowerQuery, "revenue")
        THEN IF includes(lowerQuery, "month") \/ includes(lowerQuery, "monthly")
             THEN Some("monthly")
             ELSE IF includes(lowerQuery, "product") \/ includes(lowerQuery, "item")
             THEN Some("products")
             ELSE IF \/ includes(lowerQuery, "quarter")
                     \/ \E q \in {"q1", "q2", "q3", "q4"} : includes(lowerQuery, q)
             THEN Some("quarterly")
             ELSE IF \/ includes(lowerQuery, "chart") \/ includes(lowerQuery, "graph")
                     \/ includes(lowerQuery, "visual")
             THEN Some("monthly")
             ELSE None
        ELSE None

\* checkForChartRequest of the Sales Insights assistant
checkForChartRequestSales(query) ==
    LET lower == toLowerCase(query)
    IN  IF includes(lower, "sales") \/ includes(lower, "revenue")
        THEN IF includes(lower, "month") \/ includes(lower, "monthly")
             THEN Some("monthly")
             ELSE IF includes(lower, "product") \/ includes(lower, "item")
             THEN Some("products")
             ELSE IF includes(lower, "quarter") \/ testQuarter(lower)
             THEN Some("quarterly")
             ELSE IF \/ includes(lower, "chart") \/ includes(lower, "graph")
                     \/ includes(lower, "visual")
             THEN Some("monthly")
             ELSE None
        ELSE None

-----------------------------------------------------------------------------
(* Transcript, persistence and startup. *)

SYSTEM_RULES == "Rules: call request_install, show_status"
SYSTEM_RULES_Sales == "Rules: call the /chatbot/query API"

Turn(role, content) == [role |-> role, content |-> content]

\* The two seed turns of each build: what loadHistory returns with nothing stored.
\* (The greetings are cut after their first sentence.)
Fresh(b) ==
    IF b = "it"
    THEN << Turn("system", SYSTEM_RULES),
            Turn("assistant", "Hi! I'm your IT assistant.") >>
    ELSE << Turn("system", SYSTEM_RULES_Sales),
            Turn("assistant", "Hi! I'm your Sales Insights assistant.") >>

RulesOnly(b) ==
    << Turn("system", IF b = "it" THEN SYSTEM_RULES ELSE SYSTEM_RULES_Sales) >>

\* A JSON text is held as the sequence of its tokens: punctuation marks and
\* quoted texts (the escaping inside the quotes is JSON's own business).
Punct(c) == [punct |-> c]
Text(t) == [text |-> t]
IsText(k) == "text" \in DOMAIN k

\* JSON.stringify of one turn
stringifyTurn(t) ==
    << Punct("{"), Text("role"), Punct(":"), Text(t.role), Punct(","),
       Text("content"), Punct(":"), Text(t.content), Punct("}") >>

\* JSON.stringify of a transcript
RECURSIVE stringifyTurns(_)
stringifyTurns(m) ==
    IF m = <<>> THEN <<>>
    ELSE stringifyTurn(m[1]) \o (IF Len(m) > 1 THEN <<Punct(",")>> ELSE <<>>) \o stringifyTurns(Tail(m))

stringify(m) == <<Punct("[")>> \o stringifyTurns(m) \o <<Punct("]")>>

\* Transcripts an earlier session may have left in localStorage.
StoredTranscripts ==
    { << Turn("system", SYSTEM_RULES), Turn("assistant", "Hi!"),
         Turn("user", "vpn is down"), Turn("assistant", "Ticket INC900 created for: vpn is down") >> }

\* A text cut short in the middle of a turn
CutShort == << Punct("["), Punct("{"), Text("role"), Punct(":"), Text("user"), Punct(",") >>

\* What localStorage.getItem may return at startup: nothing, text that is
\* not JSON, or a transcript written by the persist effect.
StoredValues ==
    {None, Some(CutShort)} \cup {Some(stringify(t)) : t \in StoredTranscripts}

\* s has the tokens lit from position i on
StartsWith(s, i, lit) == i + Len(lit) - 1 <= Len(s) /\ SubSeq(s, i, i + Len(lit) - 1) = lit

\* What reading a piece of JSON gives: a value and the position after it, or a SyntaxError.
Read(value, next) == [ok |-> TRUE, value |-> value, next |-> next]
SyntaxError == [ok |-> FALSE]

\* The quoted text at i
ReadText(s, i) == IF i <= Len(s) /\ IsText(s[i]) THEN Read(s[i].text, i + 1) ELSE SyntaxError

\* The turn {"role": ..., "content": ...} at i
ReadTurn(s, i) ==
    LET open == << Punct("{"), Text("role"), Punct(":") >>
        mid == << Punct(","), Text("content"), Punct(":") >>
    IN  IF ~StartsWith(s, i, open) THEN SyntaxError
        ELSE LET r == ReadText(s, i + Len(open))
             IN  IF ~r.ok \/ ~StartsWith(s, r.next, mid) THEN SyntaxError
                 ELSE LET c == ReadText(s, r.next + Len(mid))
                      IN  IF ~c.ok \/ ~StartsWith(s, c.next, <<Punct("}")>>) THEN SyntaxError
                          ELSE Read(Turn(r.value, c.value), c.next + 1)

\* The turns from i to the closing bracket, which ends the text
RECURSIVE ReadTurns(_, _, _)
ReadTurns(s, i, acc) ==
    LET t == ReadTurn(s, i)
    IN  IF ~t.ok THEN None
        ELSE IF StartsWith(s, t.next, <<Punct(",")>>) THEN ReadTurns(s, t.next + 1, Append(acc, t.value))
        ELSE IF t.next = Len(s) /\ s[t.next] = Punct("]") THEN Some(Append(acc, t.value))
        ELSE None

\* JSON.parse, for the texts JSON.stringify writes for a transcript and for
\* texts that are no JSON: <<>> when it throws, else <<the transcript>>
parse(raw) ==
    IF raw = << Punct("["), Punct("]") >> THEN Some(<<>>)
    ELSE IF StartsWith(raw, 1, <<Punct("[")>>) THEN ReadTurns(raw, 2, <<>>)
    ELSE None

\* loadHistory that answers a text that does not parse with the seed turns
loadHistory_seedOnCorrupt(raw, b) ==
    IF raw # None /\ raw # Some(<<>>) /\ IsSome(parse(Val(raw))) THEN Val(parse(Val(raw)))
    ELSE Fresh(b)

\* stored text: <<>> for nothing stored (null), <<tokens>> for a text; "if (!raw)"
\* is taken by null and by the empty text
loadHistory(raw, b) ==
    IF raw = None \/ raw = Some(<<>>) THEN Fresh(b)
    ELSE IF IsSome(parse(Val(raw))) THEN Val(parse(Val(raw)))
    ELSE RulesOnly(b)

\* useEffect(() => localStorage.setItem(..., JSON.stringify(messages)), [messages])
persist(m) == Some(stringify(m))

-----------------------------------------------------------------------------
(* Backend collaborators: what a call may answer. *)

\* A JSON null body.
JsNull == [isNull |-> TRUE]

Has(data, k) == data # JsNull /\ k \in DOMAIN data

\* data.k is truthy: present and not the empty text
Truthy(data, k) == Has(data, k) /\ data[k] # ""

\* Errors a rejected axios call carries: a transport error (message only) and
\* a server error (response.data).  A body that is text is [str |-> text]; a
\* body that is JSON is the record of its keys.
Errors == { [message |-> "Network Error"] }

\* More errors, for the single-dispatch runs: server errors with a text
\* body, with an empty body and with a JSON body.
ErrorsWide ==
    Errors \cup
    { [message |-> "Request failed with status code 500",
       response |-> [data |-> [str |-> "backend exploded"]]],
      [message |-> "Request failed with status code 502", response |-> [data |-> [str |-> ""]]],
      [message |-> "Request failed with status code 404",
       response |-> [data |-> [detail |-> [str |-> "Software not found"]]]] }

\* `${e?.response?.data || e.message}`: a body that is an object is truthy
\* and a template literal renders it with Object.prototype.toString
errDetail(e) ==
    IF "response" \in DOMAIN e /\ e.response.data # JsNull
    THEN LET d == e.response.data
         IN  IF Has(d, "str")
             THEN (IF d.str # "" THEN d.str ELSE e.message)
             ELSE "[object Object]"
    ELSE e.message

StatusResponses == { [incident_status |-> "In Progress"] }

StatusResponsesWide == StatusResponses \cup { [number |-> "INC42"], JsNull }

InstallResponses ==
    { [incident |-> "INC900", message |-> "Ticket created"],
      [options |-> <<"1.85", "1.86">>, message |-> "Which version?"],
      [options |-> <<"1.85">>, message |-> "One version found"] }

\* More shapes of an install lookup's answer, for the single-dispatch runs.
InstallResponsesWide ==
    InstallResponses \cup
    { [options |-> <<"1.0", "2.0", "3.0">>, message |-> "Pick one"],
      [options |-> <<"2.0", "1.0">>],
      [options |-> <<"1.85", "1.86">>, message |-> ""],
      [options |-> <<>>, message |-> "No match"],
      [incident |-> "INC901", options |-> <<"1.0", "2.0">>],
      [incident |-> "", options |-> <<"1.0", "2.0">>, message |-> "Choose"],
      [message |-> "Nothing found"],
      JsNull }

ConfirmResponses ==
    { [incident |-> "INC901", message |-> "Installed"],
      [message |-> "Queued"] }

TicketResponses == { [incident |-> "INC903"] }

TicketResponsesWide == TicketResponses \cup { [number |-> "INC903"], JsNull }

RECURSIVE joinText(_, _)
joinText(xs, sep) ==
    IF xs = <<>> THEN ""
    ELSE xs[1] \o (IF Len(xs) > 1 THEN sep ELSE "") \o joinText(Tail(xs), sep)

\* JSON.stringify(data, null, 2) of an install lookup's answer
stringifyData(data) ==
    IF data = JsNull THEN "null"
    ELSE "{"
         \o (IF Has(data, "incident") THEN " incident: " \o data.incident ELSE "")
         \o (IF Has(data, "options") THEN " options: [" \o joinText(data.options, ",") \o "]" ELSE "")
         \o (IF Has(data, "message") THEN " message: " \o data.message ELSE "")
         \o " }"

-----------------------------------------------------------------------------
(* The IT assistant: decideAndCallTool, handleSend, confirmVersion,        *)
(* clearSession.  An async function is split at its await: the part up to  *)
(* the call is one step, the part after the response another.  A           *)
(* continuation that awaits nothing pending runs in a microtask, before    *)
(* any other event, and belongs to the step that scheduled it.             *)

Call(api, query, arg, op) == [api |-> api, query |-> query, arg |-> arg, op |-> op]

\* decideAndCallTool with the install test ahead of the incident check.
decideAndCallTool_installFirst(query) ==
    LET chartType == checkForChartRequest(query)
        incMatch == matchInc(query)
    IN  IF IsSome(chartType)
        THEN [showChart |-> chartType,
              result |-> Some("Here's the " \o Val(chartType) \o " sales data you requested:"),
              call |-> None]
        ELSE IF testInstall(query)
        THEN [showChart |-> None, result |-> None,
              call |-> Some(Call("requestInstall", query, None, "handleSend"))]
        ELSE IF IsSome(incMatch)
        THEN [showChart |-> None, result |-> None,
              call |-> Some(Call("showStatus", query,
                                 Some(toUpperCase(Val(incMatch))), "handleSend"))]
        ELSE [showChart |-> None, result |-> None,
              call |-> Some(Call("createTicket", query, None, "handleSend"))]

\* decideAndCallTool up to its first await: the chart to show, and either the
\* reply (no call is made) or the call issued.
decideAndCallTool(query) ==
    LET chartType == checkForChartRequest(query)
        incMatch == matchInc(query)
    IN  IF IsSome(chartType)
        THEN [showChart |-> chartType,
              result |-> Some("Here's the " \o Val(chartType) \o " sales data you requested:"),
              call |-> None]
        ELSE IF IsSome(incMatch)
        THEN [showChart |-> None, result |-> None,
              call |-> Some(Call("showStatus", query,
                                 Some(toUpperCase(Val(incMatch))), "handleSend"))]
        ELSE IF testInstall(query)
        THEN [showChart |-> None, result |-> None,
              call |-> Some(Call("requestInstall", query, None, "handleSend"))]
        ELSE [showChart |-> None, result |-> None,
              call |-> Some(Call("createTicket", query, None, "handleSend"))]

\* What the rest of decideAndCallTool does once a call has answered or failed:
\* the reply, and setPending's argument when it is called (<<>>: not called).
Outcome(result, setPending) == [result |-> result, setPending |-> setPending]

\* showStatus answered with data (setPending runs before data is read)
statusThen(c, data) ==
    IF data = JsNull
    THEN Outcome("Error while checking status: Cannot read properties of null", Some(None))
    ELSE Outcome("Incident " \o Val(c.arg) \o " status: "
                    \o (IF Has(data, "incident_status") THEN data.incident_status ELSE "Unknown"),
                 Some(None))

\* statusCatch closing the pending confirmation, as the other catch blocks do.
statusCatch_clearsPending(c, e) ==
    Outcome("Error while checking status: " \o errDetail(e), Some(None))

statusCatch(c, e) == Outcome("Error while checking status: " \o errDetail(e), None)

\* installThen with the options test ahead of the ticket test.
installThen_optionsFirst(c, data) ==
    IF Has(data, "options") /\ Len(data.options) > 1
    THEN Outcome(IF Truthy(data, "message") THEN data.message
                 ELSE "Multiple versions found. Please choose one.",
                 Some(Some([user_query |-> c.query, options |-> data.options])))
    ELSE Outcome(stringifyData(data), Some(None))

\* installThen asking for the choice whenever there is any option (length > 0).
installThen_anyOption(c, data) ==
    IF Truthy(data, "incident")
    THEN Outcome(stringifyData(data), Some(None))
    ELSE IF Has(data, "options") /\ Len(data.options) > 0
    THEN Outcome(IF Truthy(data, "message") THEN data.message
                 ELSE "Multiple versions found. Please choose one.",
                 Some(Some([user_query |-> c.query, options |-> data.options])))
    ELSE Outcome(stringifyData(data), Some(None))

\* requestInstall(query, null) answered with data
installThen(c, data) ==
    IF Truthy(data, "incident")
    THEN Outcome(stringifyData(data), Some(None))
    ELSE IF Has(data, "options") /\ Len(data.options) > 1
    THEN Outcome(IF Truthy(data, "message") THEN data.message
                 ELSE "Multiple versions found. Please choose one.",
                 Some(Some([user_query |-> c.query, options |-> data.options])))
    ELSE Outcome(stringifyData(data), Some(None))

installCatch(c, e) == Outcome("Error while searching software: " \o errDetail(e), Some(None))

\* ticketThen without setPending(null).
ticketThen_keepsPending(c, data) ==
    IF data = JsNull
    THEN Outcome("Error while creating ticket: Cannot read properties of null", None)
    ELSE Outcome("Ticket " \o (IF Has(data, "incident") THEN data.incident ELSE "undefined")
                    \o " created for: " \o c.query,
                 None)

ticketThen(c, data) ==
    IF data = JsNull
    THEN Outcome("Error while creating ticket: Cannot read properties of null", Some(None))
    ELSE Outcome("Ticket " \o (IF Has(data, "incident") THEN data.incident ELSE "undefined")
                    \o " created for: " \o c.query,
                 Some(None))

ticketCatch(c, e) == Outcome("Error while creating ticket: " \o errDetail(e), Some(None))

\* confirmThen reporting the message only.
confirmThen_noIncident(c, data) ==
    Outcome("(ok) " \o (IF Truthy(data, "message") THEN data.message ELSE "Ticket created"),
            Some(None))

\* confirmVersion after its call: the turn appended; finally setPending(null)
\* (the check mark and the bullet of the source are written (ok) and -)
confirmThen(c, data) ==
    Outcome("(ok) " \o (IF Truthy(data, "message") THEN data.message ELSE "Ticket created")
               \o " - Incident: " \o (IF Truthy(data, "incident") THEN data.incident ELSE "N/A"),
            Some(None))

\* confirmCatch without the finally block.
confirmCatch_noFinally(c, e) == Outcome("(x) Failed: " \o errDetail(e), None)

confirmCatch(c, e) == Outcome("(x) Failed: " \o errDetail(e), Some(None))

Remove(q, i) == SubSeq(q, 1, i - 1) \o SubSeq(q, i + 1, Len(q))

\* The turns a handler may still append: those in the transcript plus one per call in flight.
Room(n) == Len(messages) + Len(calls) + n <= MaxMessages /\ Len(calls) < MaxCalls

\* handleSend of the IT assistant, with raw the content of the input field
handleSend(raw) ==
    LET text == trim(raw)
        d == decideAndCallTool(text)
    IN  /\ last' = [op |-> "handleSend", input |-> raw]
        /\ IF text = ""
           THEN UNCHANGED <<messages, thinking, showChart, calls, storage>>
           ELSE /\ showChart' = d.showChart
                /\ IF IsSome(d.result)
                   THEN /\ messages' = messages \o << Turn("user", text),
                                                      Turn("assistant", Val(d.result)) >>
                        /\ thinking' = FALSE
                        /\ calls' = calls
                   ELSE /\ messages' = Append(messages, Turn("user", text))
                        /\ thinking' = TRUE
                        /\ calls' = Append(calls, Val(d.call))
                /\ storage' = persist(messages')
        /\ UNCHANGED <<build, pending, lastPayload, errorMsg, choice>>

\* handleSendResume writing the reply over the last turn, setMessages((m) =>
\* [...m.slice(0, -1), reply]).
handleSendResume_overLastTurn(i, r) ==
    /\ calls' = Remove(calls, i)
    /\ thinking' = FALSE
    /\ messages' = Append(SubSeq(messages, 1, Len(messages) - 1), Turn("assistant", r.result))
    /\ storage' = persist(messages')
    /\ pending' = IF IsSome(r.setPending) THEN Val(r.setPending) ELSE pending
    /\ UNCHANGED <<build, showChart, lastPayload, errorMsg, choice>>

\* handleSendResume without setThinking(false).
handleSendResume_keepsThinking(i, r) ==
    /\ calls' = Remove(calls, i)
    /\ messages' = Append(messages, Turn("assistant", r.result))
    /\ storage' = persist(messages')
    /\ pending' = IF IsSome(r.setPending) THEN Val(r.setPending) ELSE pending
    /\ UNCHANGED <<build, thinking, showChart, lastPayload, errorMsg, choice>>

\* The rest of handleSend after decideAndCallTool returned r for call i.
handleSendResume(i, r) ==
    /\ calls' = Remove(calls, i)
    /\ thinking' = FALSE
    /\ messages' = Append(messages, Turn("assistant", r.result))
    /\ storage' = persist(messages')
    /\ pending' = IF IsSome(r.setPending) THEN Val(r.setPending) ELSE pending
    /\ UNCHANGED <<build, showChart, lastPayload, errorMsg, choice>>

\* confirmVersion without its first line, if (!choice) return.
confirmVersion_noGuard(c) ==
    /\ last' = [op |-> "confirmVersion", choice |-> c]
    /\ calls' = Append(calls, Call("requestInstall", Val(pending).user_query,
                                   c, "confirmVersion"))
    /\ UNCHANGED <<build, messages, pending, thinking, showChart, lastPayload,
                   errorMsg, choice, storage>>

\* confirmVersion(choice) up to its await, in the render that shows pending
confirmVersion(c) ==
    /\ last' = [op |-> "confirmVersion", choice |-> c]
    /\ IF c = None \/ c = Some("")
       THEN UNCHANGED calls
       ELSE calls' = Append(calls, Call("requestInstall", Val(pending).user_query,
                                        c, "confirmVersion"))
    /\ UNCHANGED <<build, messages, pending, thinking, showChart, lastPayload,
                   errorMsg, choice, storage>>

\* The rest of confirmVersion after its call i ended with r.
confirmVersionResume(i, r) ==
    /\ calls' = Remove(calls, i)
    /\ messages' = Append(messages, Turn("assistant", r.result))
    /\ storage' = persist(messages')
    /\ pending' = IF IsSome(r.setPending) THEN Val(r.setPending) ELSE pending
    /\ UNCHANGED <<build, thinking, showChart, lastPayload, errorMsg, choice>>

\* clearSession without setPending(null).
clearSession_keepPending ==
    LET fresh == << Turn("system", SYSTEM_RULES),
                    Turn("assistant", "Hi! I'm your IT assistant.") >>
    IN
    /\ messages' = fresh
    /\ showChart' = None
    /\ storage' = Some(stringify(fresh))
    /\ last' = [op |-> "clearSession"]
    /\ UNCHANGED <<build, pending, thinking, lastPayload, errorMsg, choice, calls>>

clearSession ==
    LET fresh == << Turn("system", SYSTEM_RULES),
                    Turn("assistant", "Hi! I'm your IT assistant.") >>
    IN
    /\ messages' = fresh
    /\ pending' = None
    /\ showChart' = None
    /\ storage' = Some(stringify(fresh))
    /\ last' = [op |-> "clearSession"]
    /\ UNCHANGED <<build, thinking, lastPayload, errorMsg, choice, calls>>

-----------------------------------------------------------------------------
(* The Sales Insights assistant: queryChatbot, decideAndCallTool,          *)
(* handleSend, clearSession.                                               *)

\* Errors a rejected axios call to /chatbot/query carries.  A body that is
\* text is [str |-> text]; a FastAPI body has detail, text or {error}.
ErrorsSales ==
    { [message |-> "Network Error"],
      [message |-> "Request failed with status code 500",
       response |-> [data |-> [detail |-> [error |-> "SQL failed"]]]],
      [message |-> "Request failed with status code 422",
       response |-> [data |-> [detail |-> [str |-> "prompt is required"]]]],
      [message |-> "Request failed with status code 502",
       response |-> [data |-> [str |-> "Bad Gateway"]]] }

\* errorToText: d?.detail?.error ?? d?.detail ?? d, as text
errorToText(err) ==
    IF "response" \in DOMAIN err
    THEN LET d == err.response.data
             detail == IF Has(d, "detail") /\ Has(d.detail, "error") THEN [str |-> d.detail.error]
                       ELSE IF Has(d, "detail") THEN d.detail
                       ELSE d
         IN  IF Has(detail, "str") THEN detail.str ELSE "{...}"
    ELSE IF err.message # "" THEN err.message ELSE "Error"

\* JavaScript values whose type the rendering code tests: text is
\* [str |-> t], a number [num |-> n], NaN [nan |-> TRUE], an array
\* [arr |-> <<...>>], null JsNull; an object is the record of its keys.
JsStr(t) == [str |-> t]
JsNum(n) == [num |-> n]
JsNaN == [nan |-> TRUE]
JsArr(xs) == [arr |-> xs]

IsStr(v) == "str" \in DOMAIN v
IsNum(v) == "num" \in DOMAIN v
IsArr(v) == "arr" \in DOMAIN v

\* !!v
JsTruthy(v) ==
    /\ v # JsNull
    /\ v # JsNaN
    /\ IsStr(v) => v.str # ""
    /\ IsNum(v) => v.num # 0

\* Object.keys(v): the keys of an object, none for a number
Keys(v) == IF IsNum(v) \/ v = JsNaN THEN {} ELSE DOMAIN v

DigitOf ==
    "0" :> 0 @@ "1" :> 1 @@ "2" :> 2 @@ "3" :> 3 @@ "4" :> 4 @@
    "5" :> 5 @@ "6" :> 6 @@ "7" :> 7 @@ "8" :> 8 @@ "9" :> 9

\* The number a text of digits denotes (the empty text: 0).
RECURSIVE DigitsValue(_)
DigitsValue(t) ==
    IF t = "" THEN 0
    ELSE DigitsValue(SubSeq(t, 1, Len(t) - 1)) * 10 + DigitOf[Ch(t, Len(t))]

\* typeof v === "number" ? v : Number(v), for numbers, null and texts made of
\* digits, blanks and letters: white space is trimmed, the empty text is 0,
\* digits are their value, any other text is NaN; null is 0; an object is NaN.
Number(v) ==
    IF IsNum(v) \/ v = JsNaN THEN v
    ELSE IF v = JsNull THEN JsNum(0)
    ELSE IF IsStr(v)
    THEN LET t == trim(v.str)
         IN  IF \A k \in 1..Len(t) : IsDigit(Ch(t, k)) THEN JsNum(DigitsValue(t)) ELSE JsNaN
    ELSE JsNaN

\* Number.isFinite
isFinite(n) == IsNum(n)

\* What evaluating a piece of rendering code gives: a value, or a TypeError.
Returned(v) == [threw |-> FALSE, value |-> v]
Threw == [threw |-> TRUE]

\* buildChartJsSpec counting one per value instead of one per label.
buildChartJsSpec_onePerValue(spec) ==
    LET type == IF Has(spec, "type") /\ JsTruthy(spec.type) THEN spec.type ELSE JsStr("bar")
        labels == IF Has(spec, "labels") /\ IsArr(spec.labels) THEN spec.labels.arr ELSE <<>>
        rawValues == IF Has(spec, "values") /\ IsArr(spec.values) THEN spec.values.arr ELSE <<>>
        numeric == [k \in DOMAIN rawValues |-> Number(rawValues[k])]
        allNums == \A k \in DOMAIN numeric : isFinite(numeric[k])
        dataValues == IF allNums THEN numeric ELSE [k \in DOMAIN rawValues |-> JsNum(1)]
        title == Has(spec, "title") /\ JsTruthy(spec.title)
    IN  IF ~IsStr(type) THEN Threw
        ELSE Returned([type |-> toLowerCase(type.str),
                       labels |-> labels,
                       label |-> IF allNums THEN "Value" ELSE "Count",
                       data |-> dataValues,
                       title |-> [display |-> title,
                                  text |-> IF title THEN spec.title ELSE JsStr("")],
                       scales |-> toLowerCase(type.str) \in {"bar", "line"}])

\* buildChartJsSpec(spec), for a truthy spec: (spec?.type || "bar").toLowerCase()
\* throws when the type is truthy and not text
buildChartJsSpec(spec) ==
    LET type == IF Has(spec, "type") /\ JsTruthy(spec.type) THEN spec.type ELSE JsStr("bar")
        labels == IF Has(spec, "labels") /\ IsArr(spec.labels) THEN spec.labels.arr ELSE <<>>
        rawValues == IF Has(spec, "values") /\ IsArr(spec.values) THEN spec.values.arr ELSE <<>>
        numeric == [k \in DOMAIN rawValues |-> Number(rawValues[k])]
        allNums == \A k \in DOMAIN numeric : isFinite(numeric[k])
        dataValues == IF allNums THEN numeric ELSE [k \in DOMAIN labels |-> JsNum(1)]
        title == Has(spec, "title") /\ JsTruthy(spec.title)
    IN  IF ~IsStr(type) THEN Threw
        ELSE Returned([type |-> toLowerCase(type.str),
                       labels |-> labels,
                       label |-> IF allNums THEN "Value" ELSE "Count",
                       data |-> dataValues,
                       title |-> [display |-> title,
                                  text |-> IF title THEN spec.title ELSE JsStr("")],
                       scales |-> toLowerCase(type.str) \in {"bar", "line"}])

\* GenericChart({spec}), for a truthy spec: the chart component and its props
GenericChart(spec) ==
    LET built == buildChartJsSpec(spec)
    IN  IF built.threw THEN Threw
        ELSE Returned([component |-> IF built.value.type = "pie" THEN "Pie"
                                     ELSE IF built.value.type = "line" THEN "Line"
                                     ELSE "Bar",
                       data |-> [labels |-> built.value.labels,
                                 label |-> built.value.label,
                                 data |-> built.value.data],
                       options |-> [title |-> built.value.title,
                                    scales |-> built.value.scales]])

\* String(row[c]) for a row that is not null
Cell(row, c) == IF c \in Keys(row) THEN row[c] ELSE "undefined"

\* ApiPayloadRenderer({payload}): nothing for no payload, else the facets
\* rendered (each <<>> when left out), or the TypeError thrown while rendering.
\* Object.keys(rows[0]) throws on a null first row, row[c] on a null row.
ApiPayloadRenderer(payload) ==
    IF payload = None THEN Returned(None)
    ELSE LET p == Val(payload)
             rows == IF Has(p, "data") /\ IsArr(p.data) THEN p.data.arr ELSE <<>>
             hasRows == Len(rows) > 0
             keysThrow == hasRows /\ rows[1] = JsNull
             columns == IF hasRows /\ ~keysThrow THEN Keys(rows[1]) ELSE {}
             isSingleCol == hasRows /\ Cardinality(columns) = 1
             cellsThrow == columns # {} /\ \E k \in DOMAIN rows : rows[k] = JsNull
             hasChart == Has(p, "chart") /\ JsTruthy(p.chart)
             chart == IF hasChart THEN GenericChart(p.chart) ELSE Returned(None)
             cells == [k \in DOMAIN rows |-> [c \in columns |-> Cell(rows[k], c)]]
         IN  IF keysThrow \/ cellsThrow \/ chart.threw THEN Threw
             ELSE Returned(Some(
                    [summary |-> IF Truthy(p, "summary") THEN Some(p.summary)
                                 ELSE IF Truthy(p, "answer") THEN Some(p.answer)
                                 ELSE None,
                     chart |-> IF hasChart THEN Some(chart.value) ELSE None,
                     list |-> IF isSingleCol
                              THEN Some([name |-> CHOOSE c \in columns : TRUE,
                                         items |-> [k \in DOMAIN rows |->
                                                      cells[k][CHOOSE c \in columns : TRUE]]])
                              ELSE None,
                     table |-> IF hasRows THEN Some([columns |-> columns, rows |-> cells])
                               ELSE None,
                     sql |-> IF Truthy(p, "sql") THEN Some(p.sql) ELSE None]))

ChatbotResponses ==
    { [summary |-> "Top products by revenue", chart_type |-> "products"],
      [answer |-> "42 orders",
       chart |-> [type |-> JsStr("pie"), labels |-> JsArr(<<JsStr("A"), JsStr("B")>>),
                  values |-> JsArr(<<JsStr("x"), JsStr("y")>>)]],
      [sql |-> "SELECT 1", data |-> JsArr(<< [CompanyName |-> "Acme"] >>)],
      JsNull }

\* decideAndCallTool up to its await: queryChatbot(query, inferredChart ?? "auto")
decideAndCallToolSales(query) ==
    LET inferredChart == checkForChartRequestSales(query)
    IN  [api |-> "queryChatbot", query |-> query,
         arg |-> IF IsSome(inferredChart) THEN inferredChart ELSE Some("auto"),
         op |-> "handleSend", inferredChart |-> inferredChart]

\* chartAfter with the inline chart tested ahead of the declared chart type.
chartAfter_chartFirst(data, inferredChart) ==
    IF Has(data, "chart") /\ JsTruthy(data.chart) THEN None
    ELSE IF Has(data, "chart_type") /\ data.chart_type \in {"monthly", "products", "quarterly"}
    THEN Some(data.chart_type)
    ELSE inferredChart

\* The chart state after an answer: backend chart_type, else none when the
\* answer carries a chart, else the inferred chart.
chartAfter(data, inferredChart) ==
    IF Has(data, "chart_type") /\ data.chart_type \in {"monthly", "products", "quarterly"}
    THEN Some(data.chart_type)
    ELSE IF Has(data, "chart") /\ JsTruthy(data.chart) THEN None
    ELSE inferredChart

\* (data && (data.summary || data.answer)) || "Here are your sales insights."
answerOf(data) ==
    IF Truthy(data, "summary") THEN data.summary
    ELSE IF Truthy(data, "answer") THEN data.answer
    ELSE "Here are your sales insights."

\* handleSendSales whose dispatch does not start with setErrorMsg("").
handleSendSales_keepsError(raw) ==
    LET text == trim(raw)
    IN  /\ last' = [op |-> "handleSend", input |-> raw]
        /\ IF text = "" \/ thinking
           THEN UNCHANGED <<messages, thinking, calls, storage>>
           ELSE /\ messages' = Append(messages, Turn("user", text))
                /\ thinking' = TRUE
                /\ calls' = Append(calls, decideAndCallToolSales(text))
                /\ storage' = persist(messages')
        /\ UNCHANGED <<build, pending, showChart, lastPayload, errorMsg, choice>>

handleSendSales(raw) ==
    LET text == trim(raw)
    IN  /\ last' = [op |-> "handleSend", input |-> raw]
        /\ IF text = "" \/ thinking
           THEN UNCHANGED <<messages, thinking, errorMsg, calls, storage>>
           ELSE /\ messages' = Append(messages, Turn("user", text))
                /\ thinking' = TRUE
                /\ errorMsg' = ""
                /\ calls' = Append(calls, decideAndCallToolSales(text))
                /\ storage' = persist(messages')
        /\ UNCHANGED <<build, pending, showChart, lastPayload, choice>>

\* queryChatbot answered with data: the rest of decideAndCallTool and handleSend
chatbotThen(i, data) ==
    /\ calls' = Remove(calls, i)
    /\ lastPayload' = IF data = JsNull THEN None ELSE Some(data)
    /\ showChart' = chartAfter(data, calls[i].inferredChart)
    /\ thinking' = FALSE
    /\ messages' = Append(messages, Turn("assistant", answerOf(data)))
    /\ storage' = persist(messages')
    /\ UNCHANGED <<build, pending, errorMsg, choice>>

\* queryChatbot failed with err: it throws Error(errorToText(err)), caught by decideAndCallTool
\* (Error.message of the text; e?.message || "Unknown error" when it is empty)
chatbotCatch(i, err) ==
    LET msg == IF errorToText(err) # "" THEN errorToText(err) ELSE "Unknown error"
    IN  /\ calls' = Remove(calls, i)
        /\ lastPayload' = None
        /\ showChart' = None
        /\ errorMsg' = msg
        /\ thinking' = FALSE
        /\ messages' = Append(messages, Turn("assistant", "Chatbot error: " \o msg))
        /\ storage' = persist(messages')
        /\ UNCHANGED <<build, pending, choice>>

clearSessionSales ==
    LET fresh == << Turn("system", SYSTEM_RULES_Sales),
                    Turn("assistant", "Hi! I'm your Sales Insights assistant.") >>
    IN
    /\ messages' = fresh
    /\ showChart' = None
    /\ lastPayload' = None
    /\ errorMsg' = ""
    /\ storage' = Some(stringify(fresh))
    /\ last' = [op |-> "clearSession"]
    /\ UNCHANGED <<build, pending, thinking, choice, calls>>

-----------------------------------------------------------------------------
(* The state after construction, and the events. *)

\* What the user may type before submitting.
RawInputs == {"install vscode", "status of inc42 ", "monthly sales", "vpn is down"}

Init ==
    /\ build \in {"it", "sales"}
    /\ \E raw \in StoredValues :
          /\ messages = loadHistory(raw, build)
          /\ storage = persist(messages)
    /\ pending = None
    /\ thinking = FALSE
    /\ showChart = None
    /\ lastPayload = None
    /\ errorMsg = ""
    /\ choice = None
    /\ calls = <<>>
    /\ last = [op |-> "mount"]

\* The send button: disabled={thinking || input.trim() === ""}
SendClick ==
    /\ build = "it" /\ Room(2)
    /\ ~thinking
    /\ \E raw \in RawInputs : trim(raw) # "" /\ handleSend(raw)

\* onKeyDown: Enter without Shift
EnterKey ==
    /\ build = "it" /\ Room(2)
    /\ \E raw \in RawInputs : handleSend(raw)

StatusResolved ==
    \E i \in DOMAIN calls : \E data \in StatusResponses :
        /\ calls[i].api = "showStatus"
        /\ handleSendResume(i, statusThen(calls[i], data))
        /\ last' = [op |-> "showStatus.then", call |-> calls[i], data |-> data]

StatusRejected ==
    \E i \in DOMAIN calls : \E e \in Errors :
        /\ calls[i].api = "showStatus"
        /\ handleSendResume(i, statusCatch(calls[i], e))
        /\ last' = [op |-> "showStatus.catch", call |-> calls[i], error |-> e]

InstallResolved ==
    \E i \in DOMAIN calls : \E data \in InstallResponses :
        /\ calls[i].api = "requestInstall" /\ calls[i].op = "handleSend"
        /\ handleSendResume(i, installThen(calls[i], data))
        /\ last' = [op |-> "requestInstall.then", call |-> calls[i], data |-> data]

InstallRejected ==
    \E i \in DOMAIN calls : \E e \in Errors :
        /\ calls[i].api = "requestInstall" /\ calls[i].op = "handleSend"
        /\ handleSendResume(i, installCatch(calls[i], e))
        /\ last' = [op |-> "requestInstall.catch", call |-> calls[i], error |-> e]

TicketResolved ==
    \E i \in DOMAIN calls : \E data \in TicketResponses :
        /\ calls[i].api = "createTicket"
        /\ handleSendResume(i, ticketThen(calls[i], data))
        /\ last' = [op |-> "createTicket.then", call |-> calls[i], data |-> data]

TicketRejected ==
    \E i \in DOMAIN calls : \E e \in Errors :
        /\ calls[i].api = "createTicket"
        /\ handleSendResume(i, ticketCatch(calls[i], e))
        /\ last' = [op |-> "createTicket.catch", call |-> calls[i], error |-> e]

\* The dropdown is rendered: pending?.options?.length > 1
DropdownShown == IsSome(pending) /\ Len(Val(pending).options) > 1

\* PendingInstall's select: onChange sets window.__choice
SelectVersion ==
    /\ build = "it" /\ DropdownShown
    /\ \E opt \in {Val(pending).options[k] : k \in DOMAIN Val(pending).options} :
          /\ choice' = Some(opt)
          /\ last' = [op |-> "select", choice |-> Some(opt)]
    /\ UNCHANGED <<build, messages, pending, thinking, showChart, lastPayload,
                   errorMsg, storage, calls>>

\* PendingInstall's button: onConfirm(window.__choice)
ConfirmClick ==
    /\ build = "it" /\ DropdownShown /\ Room(1)
    /\ confirmVersion(choice)

ConfirmResolved ==
    \E i \in DOMAIN calls : \E data \in ConfirmResponses :
        /\ calls[i].op = "confirmVersion"
        /\ confirmVersionResume(i, confirmThen(calls[i], data))
        /\ last' = [op |-> "confirmVersion.then", call |-> calls[i], data |-> data]

ConfirmRejected ==
    \E i \in DOMAIN calls : \E e \in Errors :
        /\ calls[i].op = "confirmVersion"
        /\ confirmVersionResume(i, confirmCatch(calls[i], e))
        /\ last' = [op |-> "confirmVersion.catch", call |-> calls[i], error |-> e]

ClearClick == build = "it" /\ clearSession

SendClickSales ==
    /\ build = "sales" /\ Room(2)
    /\ ~thinking
    /\ \E raw \in RawInputs : trim(raw) # "" /\ handleSendSales(raw)

EnterKeySales ==
    /\ build = "sales" /\ Room(2)
    /\ \E raw \in RawInputs : handleSendSales(raw)

ChatbotResolved ==
    \E i \in DOMAIN calls : \E data \in ChatbotResponses :
        /\ calls[i].api = "queryChatbot"
        /\ chatbotThen(i, data)
        /\ last' = [op |-> "queryChatbot.then", call |-> calls[i], data |-> data]

ChatbotRejected ==
    \E i \in DOMAIN calls : \E err \in ErrorsSales :
        /\ calls[i].api = "queryChatbot"
        /\ chatbotCatch(i, err)
        /\ last' = [op |-> "queryChatbot.catch", call |-> calls[i], error |-> err]

ClearClickSales == build = "sales" /\ clearSessionSales

Next ==
    \/ SendClick
    \/ EnterKey
    \/ StatusResolved
    \/ StatusRejected
    \/ InstallResolved
    \/ InstallRejected
    \/ TicketResolved
    \/ TicketRejected
    \/ SelectVersion
    \/ ConfirmClick
    \/ ConfirmResolved
    \/ ConfirmRejected
    \/ ClearClick
    \/ SendClickSales
    \/ EnterKeySales
    \/ ChatbotResolved
    \/ ChatbotRejected
    \/ ClearClickSales

Spec == Init /\ [][Next]_vars

-----------------------------------------------------------------------------
(* A session started with nothing stored, in which every call in flight    *)
(* is answered or fails in the end: the transport sets no timeout, and a   *)
(* request either resolves or rejects.                                     *)

InitLive ==
    /\ Init
    /\ messages = loadHistory(None, build)

\* Enter is pressed, while a reply is awaited or not.
SubmitLive ==
    /\ build = "it"
    /\ Len(messages) + Len(calls) + 2 <= MaxLiveTurns
    /\ \E raw \in RawInputs \cup {" "} : handleSend(raw)

SubmitLiveSales ==
    /\ build = "sales"
    /\ Len(messages) + Len(calls) + 2 <= MaxLiveTurns
    /\ \E raw \in RawInputs \cup {" "} : handleSendSales(raw)

\* A call answers or fails and its continuation runs.
Settle ==
    \/ StatusResolved
    \/ StatusRejected
    \/ InstallResolved
    \/ InstallRejected
    \/ TicketResolved
    \/ TicketRejected
    \/ ChatbotResolved
    \/ ChatbotRejected

\* The call that has waited longest answers or fails.
SettleOldest == Settle /\ calls' = Tail(calls)

NextLive ==
    \/ SubmitLive
    \/ SubmitLiveSales
    \/ Settle

SpecLive == InitLive /\ [][NextLive]_vars /\ WF_vars(SettleOldest)

-----------------------------------------------------------------------------
(* Sessions over page reloads: the page is loaded with whatever the key    *)
(* chat_history_v1 holds, used, and loaded again.                          *)

\* Transcripts either build may have left under the key (both use the same key).
StoredTranscriptsWide ==
    StoredTranscripts \cup
    { << Turn("system", SYSTEM_RULES_Sales) >>,
      << Turn("system", SYSTEM_RULES_Sales), Turn("assistant", "Hi!"),
         Turn("user", "monthly sales"), Turn("assistant", "Chatbot error: Network Error") >> }

\* What localStorage.getItem may return when the page loads: nothing, the
\* empty text, a text cut short, or a transcript written by the persist effect.
StoredValuesWide ==
    {None, Some(<<>>), Some(CutShort)} \cup {Some(stringify(t)) : t \in StoredTranscriptsWide}

\* The component mounts with raw under the key: useState(loadHistory) and the
\* other useState initial values, then the persist effect of the first render.
mount(raw) ==
    /\ messages' = loadHistory(raw, build)
    /\ storage' = persist(messages')
    /\ pending' = None
    /\ thinking' = FALSE
    /\ showChart' = None
    /\ lastPayload' = None
    /\ errorMsg' = ""
    /\ last' = [op |-> "mount", raw |-> raw]

InitReload ==
    /\ build \in {"it", "sales"}
    /\ \E raw \in StoredValuesWide :
          /\ messages = loadHistory(raw, build)
          /\ storage = persist(messages)
          /\ last = [op |-> "mount", raw |-> raw]
    /\ pending = None
    /\ thinking = FALSE
    /\ showChart = None
    /\ lastPayload = None
    /\ errorMsg = ""
    /\ choice = None
    /\ calls = <<>>

\* The page is reloaded: the calls in flight die with the old page, window
\* is new, and the component mounts with what the key holds.
Reload ==
    /\ mount(storage)
    /\ calls' = <<>>
    /\ choice' = None
    /\ UNCHANGED build

\* The send button: disabled={thinking || input.trim() === ""}
SubmitReload ==
    /\ build = "it"
    /\ Len(messages) + Len(calls) + 2 <= MaxReloadTurns
    /\ ~thinking
    /\ \E raw \in RawInputs : trim(raw) # "" /\ handleSend(raw)

SubmitReloadSales ==
    /\ build = "sales"
    /\ Len(messages) + Len(calls) + 2 <= MaxReloadTurns
    /\ ~thinking
    /\ \E raw \in RawInputs : trim(raw) # "" /\ handleSendSales(raw)

NextReload ==
    \/ SubmitReload
    \/ SubmitReloadSales
    \/ Settle
    \/ ClearClick
    \/ ClearClickSales
    \/ Reload

SpecReload == InitReload /\ [][NextReload]_vars

-----------------------------------------------------------------------------
(* Install requests and their confirmations: two pieces of software, each  *)
(* with its own versions, asked for and confirmed in any order.            *)

InstallQueries == {"install vscode", "install python"}

\* What /request_install may answer to a lookup without a chosen version.
InstallAnswers ==
    { [options |-> <<"1.85", "1.86">>, message |-> "Which version?"],
      [options |-> <<"3.11", "3.12">>, message |-> "Which version?"],
      [incident |-> "INC900", message |-> "Ticket created"] }

InitConfirm ==
    /\ Init
    /\ build = "it"
    /\ messages = loadHistory(None, build)

\* The send button, on an install request: disabled={thinking || input.trim() === ""}
SubmitInstall ==
    /\ build = "it"
    /\ Len(messages) + Len(calls) + 2 <= MaxConfirmTurns
    /\ ~thinking
    /\ \E raw \in InstallQueries : handleSend(raw)

InstallAnswered ==
    \E i \in DOMAIN calls : \E data \in InstallAnswers :
        /\ calls[i].api = "requestInstall" /\ calls[i].op = "handleSend"
        /\ handleSendResume(i, installThen(calls[i], data))
        /\ last' = [op |-> "requestInstall.then", call |-> calls[i], data |-> data]

\* PendingInstall's button: onConfirm(window.__choice).  Here it is pressed
\* once: not again while the call of an earlier press is awaited.
ConfirmPress ==
    /\ build = "it" /\ DropdownShown
    /\ Len(messages) + Len(calls) + 1 <= MaxConfirmTurns
    /\ \A i \in DOMAIN calls : calls[i].op # "confirmVersion"
    /\ confirmVersion(choice)

NextConfirm ==
    \/ SubmitInstall
    \/ InstallAnswered
    \/ InstallRejected
    \/ SelectVersion
    \/ ConfirmPress
    \/ ConfirmResolved
    \/ ConfirmRejected
    \/ ClearClick

SpecConfirm == InitConfirm /\ [][NextConfirm]_vars

-----------------------------------------------------------------------------
(* One dispatch of the IT assistant, over many utterances and answers.     *)

Words == << "install", "Setup", "set", "up", "reinstall", "inc42", "INC7x",
            "sales", "month" >>

\* The utterances of at most MaxWords words, separated by one space.
Utterances ==
    UNION { { joinText([k \in 1..n |-> Words[f[k]]], " ") : f \in [1..n -> DOMAIN Words] }
            : n \in 1..MaxWords }

\* The assistant awaiting a choice: "install vscode" was answered with two versions.
AwaitingChoice ==
    [messages |-> Fresh("it") \o << Turn("user", "install vscode"),
                                    Turn("assistant", "Which version?") >>,
     pending |-> Some([user_query |-> "install vscode", options |-> <<"1.85", "1.86">>]),
     last |-> [op |-> "requestInstall.then",
               call |-> Call("requestInstall", "install vscode", None, "handleSend"),
               data |-> [options |-> <<"1.85", "1.86">>, message |-> "Which version?"]]]

\* Starts from the freshly mounted assistant or from AwaitingChoice.
InitDispatch ==
    /\ build = "it"
    /\ \/ /\ messages = Fresh("it")
          /\ pending = None
          /\ last = [op |-> "mount"]
       \/ /\ messages = AwaitingChoice.messages
          /\ pending = AwaitingChoice.pending
          /\ last = AwaitingChoice.last
    /\ storage = persist(messages)
    /\ thinking = FALSE
    /\ showChart = None
    /\ lastPayload = None
    /\ errorMsg = ""
    /\ choice = None
    /\ calls = <<>>

\* One utterance is submitted (Enter), once.
SubmitUtterance ==
    /\ calls = <<>>
    /\ messages \in {Fresh("it"), AwaitingChoice.messages}
    /\ \E raw \in Utterances \cup {"  "} : handleSend(raw)

StatusResolvedWide ==
    \E i \in DOMAIN calls : \E data \in StatusResponsesWide :
        /\ calls[i].api = "showStatus"
        /\ handleSendResume(i, statusThen(calls[i], data))
        /\ last' = [op |-> "showStatus.then", call |-> calls[i], data |-> data]

StatusRejectedWide ==
    \E i \in DOMAIN calls : \E e \in ErrorsWide :
        /\ calls[i].api = "showStatus"
        /\ handleSendResume(i, statusCatch(calls[i], e))
        /\ last' = [op |-> "showStatus.catch", call |-> calls[i], error |-> e]

InstallResolvedWide ==
    \E i \in DOMAIN calls : \E data \in InstallResponsesWide :
        /\ calls[i].api = "requestInstall" /\ calls[i].op = "handleSend"
        /\ handleSendResume(i, installThen(calls[i], data))
        /\ last' = [op |-> "requestInstall.then", call |-> calls[i], data |-> data]

InstallRejectedWide ==
    \E i \in DOMAIN calls : \E e \in ErrorsWide :
        /\ calls[i].api = "requestInstall" /\ calls[i].op = "handleSend"
        /\ handleSendResume(i, installCatch(calls[i], e))
        /\ last' = [op |-> "requestInstall.catch", call |-> calls[i], error |-> e]

TicketResolvedWide ==
    \E i \in DOMAIN calls : \E data \in TicketResponsesWide :
        /\ calls[i].api = "createTicket"
        /\ handleSendResume(i, ticketThen(calls[i], data))
        /\ last' = [op |-> "createTicket.then", call |-> calls[i], data |-> data]

TicketRejectedWide ==
    \E i \in DOMAIN calls : \E e \in ErrorsWide :
        /\ calls[i].api = "createTicket"
        /\ handleSendResume(i, ticketCatch(calls[i], e))
        /\ last' = [op |-> "createTicket.catch", call |-> calls[i], error |-> e]

NextDispatch ==
    \/ SubmitUtterance
    \/ StatusResolvedWide
    \/ StatusRejectedWide
    \/ InstallResolvedWide
    \/ InstallRejectedWide
    \/ TicketResolvedWide
    \/ TicketRejectedWide

SpecDispatch == InitDispatch /\ [][NextDispatch]_vars

\* AwaitingChoice is a state the assistant reaches.
AwaitingChoiceUnreached ==
    ~ (/\ build = "it" /\ messages = AwaitingChoice.messages
       /\ pending = AwaitingChoice.pending /\ last = AwaitingChoice.last
       /\ calls = <<>> /\ ~thinking /\ showChart = None /\ choice = None)


-----------------------------------------------------------------------------
(* One dispatch of the Sales Insights assistant, over many answers of the  *)
(* analytics endpoint, each rendered by ApiPayloadRenderer.                *)

\* Questions with each chart hint: none, monthly, products, quarterly, and
\* monthly for a generic chart word.
SalesQuestions ==
    { "top customers", "monthly sales", "revenue by product", "sales in q3",
      "revenue chart" }

\* A record with the key k or without it.
Opt(k, S) == {<<>>} \cup {k :> v : v \in S}

\* The values of a chart: numbers, numeric, blank and other text, null, NaN.
ValueElems == { JsNum(2), JsStr("7"), JsStr(" "), JsStr("x"), JsNull, JsNaN }

ValueArrays == UNION { [1..n -> ValueElems] : n \in 0..MaxValues }

\* The chart of an answer, well-formed or not in each of its fields.
Charts ==
    { t @@ l @@ v @@ h :
        t \in Opt("type", { JsStr("pie"), JsStr("LINE"), JsStr("donut"), JsStr(""),
                            JsNum(5), JsNull }),
        l \in Opt("labels", { JsArr(<<JsStr("A"), JsStr("B")>>),
                              JsArr(<<JsStr("A"), JsStr("B"), JsStr("C")>>),
                              JsStr("A,B") }),
        v \in Opt("values", {JsArr(a) : a \in ValueArrays} \cup {JsStr("1,2")}),
        h \in Opt("title", { JsStr("Mock Chart") }) }

\* The data rows of an answer: one or two columns, no rows, rows of unlike
\* keys, a row that is null or a number, and data that is no array.
DataFields ==
    { JsArr(<< [CompanyName |-> "Acme"] >>),
      JsArr(<< [CompanyName |-> "Acme"], [CompanyName |-> "Bolt"] >>),
      JsArr(<< [Product |-> "Chai", Units |-> "39"], [Product |-> "Tofu", Units |-> "35"] >>),
      JsArr(<< [Product |-> "Chai", Units |-> "39"], [Product |-> "Tofu"] >>),
      JsArr(<<>>),
      JsArr(<< JsNull >>),
      JsArr(<< [CompanyName |-> "Acme"], JsNull >>),
      JsArr(<< JsNum(5), JsNull >>),
      JsStr("rows"),
      JsNull }

\* Answers of /chatbot/query: one facet varied at a time, and the declared
\* chart type against the inline chart.
ChatbotResponsesWide ==
    ChatbotResponses
    \cup { "chart" :> c : c \in Charts \cup { JsNull, JsStr("pie") } }
    \cup { "data" :> d : d \in DataFields }
    \cup { a @@ b @@ c :
             a \in Opt("summary", {"", "Sales rose."}),
             b \in Opt("answer", {"42 orders"}),
             c \in Opt("sql", {"", "SELECT 1"}) }
    \cup { a @@ b :
             a \in Opt("chart_type", {"monthly", "products", "quarterly", "pie", ""}),
             b \in Opt("chart", { JsNull,
                                  [type |-> JsStr("bar"), labels |-> JsArr(<<JsStr("A")>>),
                                   values |-> JsArr(<<JsNum(2)>>)] }) }

\* More errors of /chatbot/query: a server error with an empty body.
ErrorsSalesWide ==
    ErrorsSales \cup
    { [message |-> "Request failed with status code 500", response |-> [data |-> [str |-> ""]]] }

InitAnalytics ==
    /\ build = "sales"
    /\ messages = Fresh("sales")
    /\ storage = persist(messages)
    /\ pending = None
    /\ thinking = FALSE
    /\ showChart = None
    /\ lastPayload = None
    /\ errorMsg = ""
    /\ choice = None
    /\ calls = <<>>
    /\ last = [op |-> "mount"]

\* One question is submitted (Enter), once.
AskQuestion ==
    /\ messages = Fresh("sales")
    /\ \E raw \in SalesQuestions \cup {" "} : handleSendSales(raw)

\* The answer arrives; React renders the new state.
ChatbotResolvedWide ==
    \E i \in DOMAIN calls : \E data \in ChatbotResponsesWide :
        /\ calls[i].api = "queryChatbot"
        /\ chatbotThen(i, data)
        /\ last' = [op |-> "queryChatbot.then", call |-> calls[i], data |-> data,
                    view |-> ApiPayloadRenderer(lastPayload')]

ChatbotRejectedWide ==
    \E i \in DOMAIN calls : \E err \in ErrorsSalesWide :
        /\ calls[i].api = "queryChatbot"
        /\ chatbotCatch(i, err)
        /\ last' = [op |-> "queryChatbot.catch", call |-> calls[i], error |-> err,
                    view |-> ApiPayloadRenderer(lastPayload')]

NextAnalytics ==
    \/ AskQuestion
    \/ ChatbotResolvedWide
    \/ ChatbotRejectedWide

SpecAnalytics == InitAnalytics /\ [][NextAnalytics]_vars

\* The fallback static chart of the page: {!lastPayload?.chart && showChart && ...}
FallbackChart ==
    IF IsSome(lastPayload) /\ Has(Val(lastPayload), "chart") /\ JsTruthy(Val(lastPayload).chart)
    THEN None ELSE showChart

-----------------------------------------------------------------------------
(* Vocabulary of the properties, stated from the words of the              *)
(* specification rather than through the operators above.                  *)

\* The tokens of s: its maximal runs of word characters, as <<first, last>>.
RECURSIVE TokenEnd(_, _)
TokenEnd(s, i) ==
    IF i < Len(s) /\ IsWordChar(Ch(s, i + 1)) THEN TokenEnd(s, i + 1) ELSE i

TokenSpans(s) ==
    { <<i, TokenEnd(s, i)>> :
        i \in { k \in 1..Len(s) :
                  IsWordChar(Ch(s, k)) /\ (k = 1 \/ ~IsWordChar(Ch(s, k - 1))) } }

TokenText(s, sp) == SubSeq(s, sp[1], sp[2])

\* t is INC followed by digits, in any letter case
IsIncidentId(t) ==
    /\ Len(t) >= 4
    /\ toLowerCase(SubSeq(t, 1, 3)) = "inc"
    /\ \A k \in 4..Len(t) : IsDigit(Ch(t, k))

IncidentSpans(s) == {sp \in TokenSpans(s) : IsIncidentId(TokenText(s, sp))}

HasIncidentToken(s) == IncidentSpans(s) # {}

FirstIncidentToken(s) ==
    TokenText(s, CHOOSE sp \in IncidentSpans(s) : \A o \in IncidentSpans(s) : sp[1] <= o[1])

\* s has install or setup as a token, or the tokens set and up one space apart
HasInstallWord(s) ==
    \/ \E sp \in TokenSpans(s) : toLowerCase(TokenText(s, sp)) \in {"install", "setup"}
    \/ \E a, b \in TokenSpans(s) :
          /\ toLowerCase(TokenText(s, a)) = "set"
          /\ toLowerCase(TokenText(s, b)) = "up"
          /\ b[1] = a[2] + 2
          /\ Ch(s, a[2] + 1) = " "

\* s names sales or revenue together with a chart cue
IsSalesChartRequest(s) ==
    /\ \E w \in {"sales", "revenue"} : includes(toLowerCase(s), w)
    /\ \E w \in {"month", "product", "item", "quarter", "q1", "q2", "q3", "q4",
                 "chart", "graph", "visual"} : includes(toLowerCase(s), w)

\* This step is handleSend of the IT assistant on an utterance.
SendStep == last'.op = "handleSend" /\ build = "it"
Utterance == trim(last'.input)

\* The step issues exactly the status lookup for the first incident id, upper-cased.
TakesIncidentPath ==
    calls' = Append(calls, Call("showStatus", Utterance,
                                Some(toUpperCase(FirstIncidentToken(Utterance))), "handleSend"))

\* The step issues exactly the install lookup with the utterance and no chosen version.
TakesInstallPath ==
    calls' = Append(calls, Call("requestInstall", Utterance, None, "handleSend"))

LastTurn(m) == m[Len(m)]

-----------------------------------------------------------------------------
(* C1 *)

-----------------------------------------------------------------------------
(* C2 *)

\* C2 as stated: every utterance with install, setup or set up as a whole word
\* and no incident token is dispatched to the install lookup, with the
\* utterance and no chosen version.
C2_InstallAlways ==
    [][ (SendStep /\ HasInstallWord(Utterance) /\ ~HasIncidentToken(Utterance))
        => TakesInstallPath ]_vars

\* C2 amended: every utterance with install, setup or set up as a whole word,
\* no incident token, and that is not a sales chart request, is dispatched to
\* the install lookup, with the utterance and no chosen version.
C2_InstallUnlessChart ==
    [][ (SendStep /\ HasInstallWord(Utterance) /\ ~HasIncidentToken(Utterance)
         /\ ~IsSalesChartRequest(Utterance))
        => TakesInstallPath ]_vars

\* "INC7x set up" (no incident id, "set up" in any case) went to the install lookup.
C2_Witness ==
    /\ last = [op |-> "handleSend", input |-> "INC7x set up"]
    /\ calls = << Call("requestInstall", "INC7x set up", None, "handleSend") >>

-----------------------------------------------------------------------------
(* C3 *)

\* The answer carries a ticket identifier / an options list / a message.
CarriesTicket(data) == data # JsNull /\ "incident" \in DOMAIN data /\ data.incident # ""
OptionCount(data) ==
    IF data # JsNull /\ "options" \in DOMAIN data THEN Len(data.options) ELSE 0
GivesMessage(data) == data # JsNull /\ "message" \in DOMAIN data /\ data.message # ""

\* C3: when the install lookup of a dispatch answers, the shapes are tried in
\* order: a ticket identifier clears the pending confirmation; else more than
\* one option sets it to the utterance with exactly the returned options, in
\* order, and the reply is the backend message, or the generic
\* multiple-versions message when none is given; else it is cleared.
C3_InstallShapes ==
    [][ last'.op = "requestInstall.then" =>
          LET data == last'.data
              query == last'.call.query
              reply == LastTurn(messages')
          IN  IF CarriesTicket(data) THEN pending' = None
              ELSE IF OptionCount(data) > 1
              THEN /\ pending' = Some([user_query |-> query, options |-> data.options])
                   /\ reply = Turn("assistant",
                                   IF GivesMessage(data) THEN data.message
                                   ELSE "Multiple versions found. Please choose one.")
              ELSE pending' = None ]_vars

\* Options 1.0, 2.0, 3.0 with the message "Pick one" were returned.
C3_Witness ==
    /\ last.op = "requestInstall.then"
    /\ OptionCount(last.data) = 3
    /\ pending = Some([user_query |-> last.call.query, options |-> <<"1.0", "2.0", "3.0">>])
    /\ LastTurn(messages) = Turn("assistant", "Pick one")

-----------------------------------------------------------------------------
(* C4 *)

\* C4: there is at most one pending confirmation and it has at least two
\* options; one comes into being only when the install lookup of a dispatch
\* answers with at least two options (and then holds those), and an answer
\* with zero or one option leaves none.
C4_PendingHasChoices ==
    [][ /\ Len(pending') <= 1
        /\ IsSome(pending') => Len(Val(pending').options) >= 2
        /\ (IsSome(pending') /\ pending' # pending) =>
              /\ last'.op = "requestInstall.then"
              /\ OptionCount(last'.data) >= 2
              /\ Val(pending').options = last'.data.options
        /\ (last'.op = "requestInstall.then" /\ OptionCount(last'.data) < 2) =>
              pending' = None ]_vars

\* One option was returned and no pending confirmation exists.
C4_Witness ==
    /\ last.op = "requestInstall.then"
    /\ OptionCount(last.data) = 1
    /\ ~CarriesTicket(last.data)
    /\ pending = None

-----------------------------------------------------------------------------
(* C5 *)

\* C5: confirmVersion with an empty choice (none selected, or the empty text)
\* changes nothing: the pending confirmation stays, no call is issued and no
\* turn is appended.
C5_EmptyChoiceNoOp ==
    [][ (last'.op = "confirmVersion" /\ (last'.choice = None \/ last'.choice = Some("")))
        => (pending' = pending /\ IsSome(pending') /\ calls' = calls /\ messages' = messages)
      ]_vars

\* Confirm was clicked with nothing selected while a choice was awaited.
C5_Witness ==
    /\ last = [op |-> "confirmVersion", choice |-> None]
    /\ IsSome(pending)
    /\ calls = <<>>

-----------------------------------------------------------------------------
(* C6 *)

\* C6: a confirmVersion with a non-empty choice appends nothing when it
\* issues its call, and when the call ends, answered or failed, the pending
\* confirmation is absent and exactly one assistant turn has been appended.
C6_ConfirmAlwaysClears ==
    [][ /\ (last'.op = "confirmVersion" /\ IsSome(last'.choice) /\ last'.choice # Some(""))
            => (messages' = messages /\ Len(calls') = Len(calls) + 1)
        /\ last'.op \in {"confirmVersion.then", "confirmVersion.catch"}
            => /\ pending' = None
               /\ Len(messages') = Len(messages) + 1
               /\ SubSeq(messages', 1, Len(messages)) = messages
               /\ LastTurn(messages').role = "assistant" ]_vars

\* A confirmation call failed; the failure turn is there and nothing is pending.
C6_Witness ==
    /\ last.op = "confirmVersion.catch"
    /\ pending = None
    /\ LastTurn(messages) = Turn("assistant", "(x) Failed: Network Error")

-----------------------------------------------------------------------------
(* C7 *)

\* C7: clearSession leaves, in one step, the transcript equal to the two seed
\* turns of a first start (system rules, then the assistant's greeting), no
\* pending confirmation and no last payload.
C7_ClearResets ==
    [][ last'.op = "clearSession" =>
          /\ messages' = loadHistory(None, build)
          /\ Len(messages') = 2
          /\ messages'[1].role = "system" /\ messages'[2].role = "assistant"
          /\ pending' = None
          /\ lastPayload' = None ]_vars

\* The session was cleared while a choice was awaited and a call was in flight.
C7_Witness ==
    /\ last.op = "clearSession"
    /\ build = "it"
    /\ messages = loadHistory(None, build)
    /\ pending = None
    /\ calls # <<>>
    /\ IsSome(choice)

-----------------------------------------------------------------------------
(* C8 *)

\* C8: in the transcript every user turn that is not the last turn is followed
\* by an assistant turn: a dispatch's user turn and reply are never separated
\* by the user turn of another dispatch.
C8_NoInterleaving ==
    \A i \in 1..(Len(messages) - 1) :
        messages[i].role = "user" => messages[i + 1].role = "assistant"

-----------------------------------------------------------------------------
(* C9 *)

\* C9: at most one call issued by handleSend is in flight, and a submission
\* made while thinking is set starts nothing.
C9_OneDispatchInFlight ==
    [][ /\ Cardinality({i \in DOMAIN calls' : calls'[i].op = "handleSend"}) <= 1
        /\ (last'.op = "handleSend" /\ thinking)
              => (messages' = messages /\ calls' = calls) ]_vars

-----------------------------------------------------------------------------
(* C10 *)

\* C10: when the confirmation call for "install vscode", made with one of the
\* two versions offered, answers with a ticket identifier, the transcript ends
\* with an assistant success turn containing that identifier and no
\* confirmation is pending.
C10_InstallScenario ==
    [][ (/\ last'.op = "confirmVersion.then"
         /\ last'.call.query = "install vscode"
         /\ last'.call.arg \in {Some("1.85"), Some("1.86")}
         /\ CarriesTicket(last'.data))
        => /\ pending' = None
           /\ LastTurn(messages').role = "assistant"
           /\ SubSeq(LastTurn(messages').content, 1, 4) = "(ok)"
           /\ includes(LastTurn(messages').content, last'.data.incident) ]_vars

\* "install vscode", two versions offered, 1.85 chosen, ticket INC901 created.
C10_Witness ==
    /\ last.op = "confirmVersion.then"
    /\ last.call = Call("requestInstall", "install vscode", Some("1.85"), "confirmVersion")
    /\ messages = Fresh("it") \o << Turn("user", "install vscode"),
                                    Turn("assistant", "Which version?"),
                                    Turn("assistant", "(ok) Installed - Incident: INC901") >>
    /\ pending = None

-----------------------------------------------------------------------------
(* C11 *)

\* This step ends a dispatch of the IT assistant: a call issued by handleSend
\* answers or fails, or handleSend replies at once (a chart request).
RepliesAtOnce == last'.op = "handleSend" /\ calls' = calls /\ messages' # messages
CallEnds(ops) == last'.op \in ops /\ last'.call.op = "handleSend"

\* After the step the confirmation that was pending is gone: none is pending,
\* or the one pending was made by the dispatch that ends here.
EarlierConfirmationGone ==
    \/ pending' = None
    \/ /\ last'.op = "requestInstall.then"
       /\ pending' = Some([user_query |-> last'.call.query, options |-> last'.data.options])

\* C11 as stated: whatever kind of dispatch ends while a confirmation is
\* pending (incident status, chart, install, generic ticket), the earlier
\* confirmation is no longer alive afterwards.
C11_AnyDispatchInvalidates ==
    [][ (/\ build = "it" /\ IsSome(pending)
         /\ \/ RepliesAtOnce
            \/ CallEnds({"showStatus.then", "showStatus.catch",
                         "requestInstall.then", "requestInstall.catch",
                         "createTicket.then", "createTicket.catch"}))
        => EarlierConfirmationGone ]_vars

\* C11 amended: when an install dispatch, a generic ticket dispatch, or an
\* incident status dispatch whose lookup answers, ends while a confirmation is
\* pending, the earlier confirmation is no longer alive afterwards.
C11_ClearingDispatchInvalidates ==
    [][ (/\ build = "it" /\ IsSome(pending)
         /\ CallEnds({"showStatus.then",
                      "requestInstall.then", "requestInstall.catch",
                      "createTicket.then", "createTicket.catch"}))
        => EarlierConfirmationGone ]_vars

\* A generic ticket was created while a choice was awaited: nothing is pending.
C11_Witness ==
    /\ last.op = "createTicket.then"
    /\ SubSeq(messages, 1, 4) = AwaitingChoice.messages
    /\ Len(messages) = 6
    /\ pending = None

-----------------------------------------------------------------------------
(* C12 *)

\* The confirmation pending when the one dispatch of SpecDispatch started.
PendingAtStart ==
    IF Len(messages') >= 4 /\ SubSeq(messages', 1, 4) = AwaitingChoice.messages
    THEN AwaitingChoice.pending ELSE None

IsErrorText(t) == SubSeq(t, 1, 5) = "Error"

\* This step is handleSend issuing a status lookup.
IssuesStatusLookup ==
    /\ SendStep
    /\ Len(calls') = Len(calls) + 1
    /\ calls'[Len(calls')].api = "showStatus"

\* C12: when the status lookup of a dispatch fails, the pending confirmation
\* is what it was before the dispatch (the same query and options, or none):
\* neither handleSend nor the failure handler changes it; the reply is an
\* assistant turn holding an error text.
C12_StatusFailureKeepsPending ==
    [][ /\ IssuesStatusLookup => pending' = pending
        /\ CallEnds({"showStatus.catch"}) =>
              /\ pending' = pending
              /\ pending' = PendingAtStart
              /\ LastTurn(messages').role = "assistant"
              /\ IsErrorText(LastTurn(messages').content) ]_vars

\* A status lookup failed while a choice was awaited: the choice is still awaited.
C12_Witness ==
    /\ last.op = "showStatus.catch"
    /\ pending = Some([user_query |-> "install vscode", options |-> <<"1.85", "1.86">>])
    /\ IsErrorText(LastTurn(messages).content)

-----------------------------------------------------------------------------
(* C13 *)

\* The status an answer of the status lookup carries, or "Unknown".
ReportedStatus(data) ==
    IF data # JsNull /\ "incident_status" \in DOMAIN data
    THEN data.incident_status ELSE "Unknown"

\* C13: when the status lookup of a dispatch answers, no confirmation is
\* pending afterwards and the reply names the incident and reports the
\* returned status, or "Unknown" when the answer carries none.
C13_StatusSuccess ==
    [][ CallEnds({"showStatus.then"}) =>
          /\ pending' = None
          /\ LastTurn(messages') =
               Turn("assistant", "Incident " \o Val(last'.call.arg) \o " status: "
                                    \o ReportedStatus(last'.data)) ]_vars

-----------------------------------------------------------------------------
(* C14 *)

\* The human-readable detail a failed call carries: the text of the server's
\* body, or the detail (or its error) of a JSON body, or else the transport's
\* message.
FailureDetail(e) ==
    IF "response" \notin DOMAIN e THEN e.message
    ELSE LET d == e.response.data
             inner == IF "detail" \in DOMAIN d THEN d.detail ELSE d
             text == IF "error" \in DOMAIN inner THEN inner.error
                     ELSE IF "str" \in DOMAIN inner THEN inner.str
                     ELSE ""
         IN  IF text # "" THEN text ELSE e.message

\* C14: when the call of an install, generic ticket or analytics dispatch
\* fails, no confirmation is pending afterwards and the reply is an assistant
\* turn holding an error text that contains the failure's detail.
C14_FailureClearsAndExplains ==
    [][ (/\ last'.op \in {"requestInstall.catch", "createTicket.catch", "queryChatbot.catch"}
         /\ last'.call.op = "handleSend")
        => /\ pending' = None
           /\ LastTurn(messages').role = "assistant"
           /\ includes(toLowerCase(LastTurn(messages').content), "error")
           /\ includes(LastTurn(messages').content, FailureDetail(last'.error)) ]_vars

-----------------------------------------------------------------------------
(* C17 *)

\* C17: every step other than clearSession leaves the transcript as it is or
\* appends turns at its end: the turns already there stay, unchanged and in
\* their order.
C17_AppendOnly ==
    [][ last'.op # "clearSession" =>
          /\ Len(messages') >= Len(messages)
          /\ \A k \in 1..Len(messages) : messages'[k] = messages[k] ]_vars

\* A restored transcript of four turns was extended by a dispatch's two turns.
C17_Witness ==
    /\ Len(messages) = 6
    /\ SubSeq(messages, 1, 4) \in StoredTranscripts
    /\ messages[5].role = "user" /\ messages[6].role = "assistant"
    /\ last.op \in {"createTicket.then", "queryChatbot.catch"}

-----------------------------------------------------------------------------
(* C16 *)

\* The answer declares one of the three chart types / supplies an inline chart.
DeclaresChartType(data) ==
    /\ data # JsNull /\ "chart_type" \in DOMAIN data
    /\ \E t \in {"monthly", "products", "quarterly"} : data.chart_type = t
SuppliesChart(data) ==
    /\ data # JsNull /\ "chart" \in DOMAIN data
    /\ data.chart \notin {JsNull, JsStr("")}

-----------------------------------------------------------------------------
(* C19 *)

\* What a value of ValueElems coerces to: <<n>>, or <<>> when it is no finite number.
CoercedValue ==
    [v \in ValueElems |->
        IF v = JsNum(2) THEN <<2>>
        ELSE IF v = JsStr("7") THEN <<7>>
        ELSE IF v \in {JsStr(" "), JsNull} THEN <<0>>
        ELSE <<>>]

\* The labels and values of a chart spec, none when the field is no array.
ArrayOf(spec, k) == IF k \in DOMAIN spec /\ "arr" \in DOMAIN spec[k] THEN spec[k].arr ELSE <<>>

\* C19: in the chart rendered from an answer's chart spec, if some value does
\* not coerce to a finite number the series is one 1 per label and is labelled
\* "Count"; otherwise the series is the coerced values and is labelled "Value".
C19_CountFallback ==
    [][ (/\ last'.op = "queryChatbot.then"
         /\ ~last'.view.threw
         /\ IsSome(last'.view.value)
         /\ IsSome(Val(last'.view.value).chart))
        => LET spec == last'.data.chart
               values == ArrayOf(spec, "values")
               labels == ArrayOf(spec, "labels")
               series == Val(Val(last'.view.value).chart).data
           IN  IF \E k \in DOMAIN values : CoercedValue[values[k]] = <<>>
               THEN /\ series.data = [k \in 1..Len(labels) |-> JsNum(1)]
                    /\ series.label = "Count"
               ELSE /\ series.data = [k \in DOMAIN values |-> JsNum(CoercedValue[values[k]][1])]
                    /\ series.label = "Value" ]_vars

\* The pie chart with labels A, B and values "x", "y" was rendered as counts 1, 1.
C19_Witness ==
    /\ last.op = "queryChatbot.then"
    /\ "chart" \in DOMAIN last.data
    /\ last.data.chart = [type |-> JsStr("pie"), labels |-> JsArr(<<JsStr("A"), JsStr("B")>>),
                          values |-> JsArr(<<JsStr("x"), JsStr("y")>>)]
    /\ ~last.view.threw
    /\ Val(Val(last.view.value).chart).data =
          [labels |-> <<JsStr("A"), JsStr("B")>>, label |-> "Count",
           data |-> <<JsNum(1), JsNum(1)>>]

-----------------------------------------------------------------------------
(* C20 *)

\* C20: whatever the analytics endpoint answers, rendering the answer raises
\* no error: each facet is rendered or left out.
C20_RenderNeverThrows ==
    [][ last'.op = "queryChatbot.then" => ~last'.view.threw ]_vars

-----------------------------------------------------------------------------
(* C15 *)

SettleOps ==
    { "showStatus.then", "showStatus.catch", "requestInstall.then", "requestInstall.catch",
      "createTicket.then", "createTicket.catch", "queryChatbot.then", "queryChatbot.catch" }

\* The calls a text submission can issue.
DispatchCalls ==
    { Val(decideAndCallTool(trim(raw)).call) :
        raw \in {r \in RawInputs : IsSome(decideAndCallTool(trim(r)).call)} }
    \cup { decideAndCallToolSales(trim(raw)) : raw \in RawInputs }

\* This step is handleSend accepting a submission / the end of a dispatch's call.
Accepts == last'.op = "handleSend" /\ messages' # messages
DispatchEnds == last'.op \in SettleOps /\ last'.call.op = "handleSend"

\* C15, step by step: an accepted submission appends the user's turn and
\* either replies at once or issues exactly one call and sets thinking; a
\* submission not accepted issues none; when the call answers or fails it is
\* taken off, none is issued in its place, exactly one assistant turn is
\* appended and thinking is cleared; after a failure that turn holds the error.
C15_OneReplyPerStep ==
    /\ Accepts =>
         /\ messages'[Len(messages) + 1] = Turn("user", trim(last'.input))
         /\ \/ /\ Len(messages') = Len(messages) + 1
               /\ Len(calls') = Len(calls) + 1
               /\ SubSeq(calls', 1, Len(calls)) = calls
               /\ thinking'
            \/ /\ Len(messages') = Len(messages) + 2
               /\ LastTurn(messages').role = "assistant"
               /\ calls' = calls
               /\ ~thinking'
    /\ (last'.op = "handleSend" /\ ~Accepts) => calls' = calls
    /\ DispatchEnds =>
         /\ Len(calls') = Len(calls) - 1
         /\ \E i \in DOMAIN calls : calls[i] = last'.call /\ calls' = Remove(calls, i)
         /\ Len(messages') = Len(messages) + 1
         /\ LastTurn(messages').role = "assistant"
         /\ ~thinking'
         /\ "error" \in DOMAIN last' =>
               includes(toLowerCase(LastTurn(messages').content), "error")

\* C15: every accepted text submission yields exactly one assistant turn and
\* the cleared thinking flag in the end, whether its call answers or fails:
\* each step is as C15_OneReplyPerStep says, thinking never stays set, and a
\* call in flight always comes to its end, where its reply is the last turn.
C15_EveryDispatchReplies ==
    /\ [][C15_OneReplyPerStep]_vars
    /\ thinking ~> ~thinking
    /\ \A c \in DispatchCalls :
          (calls # <<>> /\ Head(calls) = c)
             ~> (/\ last.op \in SettleOps /\ last.call = c
                 /\ LastTurn(messages).role = "assistant" /\ ~thinking)

\* Two dispatches of the IT assistant overlapped; the second call failed
\* last and its error is the last turn.
C15_Witness ==
    /\ build = "it"
    /\ last.op = "createTicket.catch"
    /\ calls = <<>> /\ ~thinking
    /\ Len(messages) = 6
    /\ messages[3].role = "user" /\ messages[4].role = "user"
    /\ messages[5].role = "assistant"
    /\ messages[6] = Turn("assistant", "Error while creating ticket: Network Error")

-----------------------------------------------------------------------------
(* C18 *)

\* The text x is the JSON of a transcript of n >= 1 turns: "[", the turns
\* {"role": R, "content": C} with commas between them, "]". A turn takes nine
\* tokens and the mark after it a tenth.
IsTranscriptJson(x) ==
    LET n == (Len(x) - 1) \div 10
    IN  /\ n >= 1 /\ Len(x) = 10 * n + 1
        /\ x[1] = [punct |-> "["] /\ x[Len(x)] = [punct |-> "]"]
        /\ \A k \in 1..n :
              LET o == 10 * (k - 1) + 1
              IN  /\ x[o + 1] = [punct |-> "{"]
                  /\ x[o + 2] = [text |-> "role"]
                  /\ x[o + 3] = [punct |-> ":"]
                  /\ DOMAIN x[o + 4] = {"text"}
                  /\ x[o + 5] = [punct |-> ","]
                  /\ x[o + 6] = [text |-> "content"]
                  /\ x[o + 7] = [punct |-> ":"]
                  /\ DOMAIN x[o + 8] = {"text"}
                  /\ x[o + 9] = [punct |-> "}"]
                  /\ k < n => x[o + 10] = [punct |-> ","]

\* The turn sequence such a text holds, in order
TurnsOf(x) ==
    [k \in 1..((Len(x) - 1) \div 10) |->
        [role |-> x[10 * (k - 1) + 5].text, content |-> x[10 * (k - 1) + 9].text]]

\* The system rule turn of the running build
RuleTurn ==
    [role |-> "system", content |-> IF build = "it" THEN SYSTEM_RULES ELSE SYSTEM_RULES_Sales]

\* C18: the key always holds the JSON of the transcript in memory, and after
\* the page has loaded with raw under the key (for the first time or on a
\* reload) the transcript is: the system rule turn and an assistant greeting
\* when nothing was stored (no text, or the empty text), the turn sequence raw
\* holds, in order, when raw is the JSON of a transcript, and the system rule
\* turn alone when raw is not JSON.
C18_PersistedAndRestored ==
    /\ IsSome(storage)
    /\ IsTranscriptJson(Val(storage))
    /\ TurnsOf(Val(storage)) = messages
    /\ last.op = "mount" =>
          IF last.raw = None \/ last.raw = Some(<<>>)
          THEN Len(messages) = 2 /\ messages[1] = RuleTurn /\ messages[2].role = "assistant"
          ELSE IF IsTranscriptJson(Val(last.raw))
          THEN messages = TurnsOf(Val(last.raw))
          ELSE messages = <<RuleTurn>>

\* The page was reloaded after a dispatch of this session, and the transcript
\* with the dispatch's two turns is back.
C18_Witness ==
    /\ last.op = "mount"
    /\ IsSome(last.raw)
    /\ Len(messages) >= 4
    /\ messages \notin StoredTranscriptsWide
    /\ messages[Len(messages) - 1].role = "user"

-----------------------------------------------------------------------------
(* C21 *)

\* The versions the pending confirmation offers
OfferedVersions == {Val(pending).options[k] : k \in DOMAIN Val(pending).options}

\* confirmVersion has issued its call in this step
ConfirmIssues == last'.op = "confirmVersion" /\ Len(calls') = Len(calls) + 1

\* C21: whenever confirmVersion issues the install lookup, the chosen
\* version it sends is one of the options of the pending confirmation it is
\* resolving (so a version selected for an earlier confirmation with other
\* options is never sent for a later one).
C21_SendsOfferedVersion ==
    [][ ConfirmIssues =>
          /\ IsSome(calls'[Len(calls')].arg)
          /\ Val(calls'[Len(calls')].arg) \in OfferedVersions ]_vars

-----------------------------------------------------------------------------
(* C22 *)

\* The confirmation calls in flight
ConfirmationsInFlight(q) == {i \in DOMAIN q : q[i].op = "confirmVersion"}

\* C22: a confirm action taken while a confirmation call is still in flight
\* issues no call, so that at most one confirmation call is in flight and a
\* pending confirmation gets one result turn.
C22_ConfirmedOnce ==
    [][ /\ (last'.op = "confirmVersion" /\ ConfirmationsInFlight(calls) # {})
            => calls' = calls
        /\ Cardinality(ConfirmationsInFlight(calls')) <= 1 ]_vars

-----------------------------------------------------------------------------
(* C23 *)

\* A confirmation call has ended in this step
ConfirmEnds == last'.op \in {"confirmVersion.then", "confirmVersion.catch"}

\* The pending confirmation is not the one the ending confirmation call was
\* made for: it asks about another request, so a dispatch created it while
\* the call was in flight.
PendingOfLaterDispatch == IsSome(pending) /\ Val(pending).user_query # last'.call.query

\* C23: when a confirmation call ends, a pending confirmation that a dispatch
\* created while the call was in flight is still there.
C23_ClearsOnlyItsOwn ==
    [][ (ConfirmEnds /\ PendingOfLaterDispatch) => pending' = pending ]_vars

-----------------------------------------------------------------------------
(* C24 *)

\* The session as a clear leaves it: the system rule turn and the greeting,
\* no pending confirmation, no last payload.
JustCleared ==
    /\ Len(messages) = 2
    /\ messages[1].role = "system" /\ messages[2].role = "assistant"
    /\ pending = None
    /\ lastPayload = None

\* C24: once the session is cleared, nothing that belongs to an utterance
\* submitted before the clear is written: as long as no utterance is
\* submitted, the transcript stays the two seed turns and the pending
\* confirmation and the last payload stay absent.
C24_NothingLateAfterClear ==
    [][ (JustCleared /\ last'.op # "handleSend") =>
          (messages' = messages /\ pending' = None /\ lastPayload' = None) ]_vars

-----------------------------------------------------------------------------
(* C25 *)

\* A dispatch has started in this step: a submission was accepted and its call issued.
DispatchStarts == last'.op = "handleSend" /\ Len(calls') = Len(calls) + 1

\* C25: in the analytics build, whenever the error message is not empty there
\* is no last payload and no static chart hint, and the error message is
\* empty after the start of every dispatch and after a session clear.  (The
\* error message is empty when the page has loaded.)
C25_ErrorExcludesPayload ==
    [][ build = "sales" =>
          /\ errorMsg' # "" => (lastPayload' = None /\ showChart' = None)
          /\ DispatchStarts => errorMsg' = ""
          /\ last'.op = "clearSession" => errorMsg' = "" ]_vars

\* A second dispatch has failed: the error message is set, and no payload or
\* chart hint of the first is left.
C25_Witness ==
    /\ build = "sales"
    /\ last.op = "queryChatbot.catch"
    /\ errorMsg # ""
    /\ lastPayload = None /\ showChart = None
    /\ Len(messages) >= 6


====
